---- MODULE Spec2Model ----
(***************************************************************************)
(* Library Management FastAPI service: the three tables (libraries, books, *)
(* library_books), the constraints the schema declares on them, and the    *)
(* service-layer handlers behind /libraries, /books and /library-books.    *)
(* Each request runs in its own database session (database.py get_db); a   *)
(* commit the database rejects rolls the session back and leaves the       *)
(* tables as they were. Spec takes a handler as one action; SpecSteps      *)
(* splits create_mapping into its database round trips, one per commit.    *)
(***************************************************************************)
EXTENDS Integers, FiniteSets, Sequences, TLC

\* ---- bounds ------------------------------------------------------------
MaxCreates == 5       \* rows ever inserted, over the three tables
MaxCountInput == 0    \* largest count a client supplies
MaxFieldRows == 3     \* rows ever inserted where whole request bodies vary
MaxMessageLen == 2    \* phrases in the message of an integrity error
MaxIsbnDigits == 21   \* digits in the isbn of a request
MaxHyphens == 8       \* hyphens in the isbn of a request
MaxSpaces == 2        \* whitespace characters in the isbn of a request
MaxIsbnRows == 1      \* books stored where the isbn of the request varies
MaxListBooks == 4     \* books ever inserted where lists of books are read
MaxPage == 3          \* largest page number a client asks for
MaxPageSize == 2      \* largest page size (limit) a client asks for
MaxCountRows == 4     \* rows ever inserted where the count methods are called
MaxLegacyRows == 4    \* rows ever inserted where the /api/v1 endpoints are called

\* ---- values ------------------------------------------------------------
Active == "Active"
Inactive == "Inactive"
StatusValues == {Active, Inactive}
\* an isbn is the list of its characters
ISBN13 == <<"9", "7", "8", "1", "2", "3", "4", "5", "6", "7", "8", "9", "0">>
ISBN10 == <<"1", "2", "3", "4", "5", "6", "7", "8", "9", "0">>
Isbns == {ISBN13, ISBN10}
Titles == {"Test Book"}
Names == {"Test Library"}
Depts == {"CSE"}
Authors == {"Test Author"}
Categories == {"Test Category"}
\* prices are counted in thousandths of the currency unit: 100.00
Prices == {100000}
\* the library statuses the requests of this model supply
LibraryStatusInputs == {Active}
\* an explicit JSON null in an update body (Optional[...] fields)
NoneStr == "None"
\* the same null where an isbn is expected: a list, as every isbn is
NoneIsbn == <<NoneStr>>

VARIABLES libraries, books, library_books,
          next_library_id, next_book_id, next_mapping_id,
          response, sessions, exc, request

vars == <<libraries, books, library_books,
          next_library_id, next_book_id, next_mapping_id, response, sessions, exc,
          request>>

\* no request body is waiting to be parsed
NoRequest == [op |-> "none"]

\* the requests that can be in progress at once, each with its own database
\* session (get_db): where a create_mapping stands and what it holds
Workers == {"w1", "w2"}

Idle == [pc |-> "idle", lib_id |-> 0, book_id |-> 0, status |-> "",
         mapping_id |-> 0, count |-> 0]

\* ids a request can name: every id allocated so far (stored or deleted) and
\* one that was never allocated
LibIdInputs == 1..next_library_id
BookIdInputs == 1..next_book_id
MapIdInputs == 1..next_mapping_id

\* rows inserted so far (autoincrement ids are never handed out twice)
Allocated == (next_library_id - 1) + (next_book_id - 1) + (next_mapping_id - 1)

\* mutant: the key is max(id) + 1 of the rows stored (a rowid, not a counter)
autoincrement_mut(table, next_id) ==
    IF DOMAIN table = {} THEN 1
    ELSE (CHOOSE i \in DOMAIN table : \A j \in DOMAIN table : j <= i) + 1

\* id = Column(Integer, primary_key=True, autoincrement=True): the key of a
\* new row is the table's counter, which only ever grows
autoincrement(table, next_id) == next_id

\* price = Column(Numeric(10, 2)): the float of the request is stored, and
\* read back, rounded to two decimal places
Numeric_10_2(price) == ((price + 5) \div 10) * 10

\* ---- tables as functions from primary key to row -------------------------
EmptyTable == [i \in {} |-> i]

Insert(table, id, row) ==
    [i \in (DOMAIN table) \cup {id} |-> IF i = id THEN row ELSE table[i]]

Remove(table, ids) == [i \in (DOMAIN table) \ ids |-> table[i]]

\* mutant: the commit without the setattr loop
ApplyUpdate_mut(row, update_data) == row

\* setattr(db_obj, field, value) for every field of update_data
\* (model_dump(exclude_unset=True): DOMAIN update_data is the set of
\* fields the request supplied)
ApplyUpdate(row, update_data) ==
    [f \in DOMAIN row |-> IF f \in DOMAIN update_data THEN update_data[f] ELSE row[f]]

\* every partial assignment of the fields in flds (a function from field to
\* its set of possible values), one per subset of supplied fields
RECURSIVE PartialBodies(_, _)
PartialBodies(fields, flds) ==
    IF fields = {} THEN {EmptyTable}
    ELSE LET f == CHOOSE x \in fields : TRUE
             rest == PartialBodies(fields \ {f}, flds)
         IN rest \cup { Insert(b, f, v) : b \in rest, v \in flds[f] }

\* what a request is answered with: the endpoint, the HTTP status, and the
\* message (the "message" of a success, the detail of an HTTPException, or
\* str(e) of the exception that left the handler)
Resp(op, status, detail) == [op |-> op, status |-> status, detail |-> detail]

\* str(e) of the IntegrityError a rejected commit raises
DuplicateEntry == "IntegrityError: Duplicate entry"
ForeignKeyFails == "IntegrityError: a foreign key constraint fails"
CannotBeNull == "IntegrityError: Column cannot be null"

\* ---- schema constraints the database checks at commit --------------------
\* Book.isbn unique=True
BookIsbnUnique(bs) ==
    \A a, b \in DOMAIN bs : a # b => bs[a].isbn # bs[b].isbn

\* mutant: the table is created without its unique constraint
unique_library_book_mut(ms) == TRUE

\* UniqueConstraint('lib_id', 'book_id', name='unique_library_book')
unique_library_book(ms) ==
    \A a, b \in DOMAIN ms :
        a # b => ~(ms[a].lib_id = ms[b].lib_id /\ ms[a].book_id = ms[b].book_id)

\* mutant: the columns are declared without their foreign keys
ForeignKeys_mut(ms, ls, bs) == TRUE

\* ForeignKey("libraries.id"), ForeignKey("books.id")
ForeignKeys(ms, ls, bs) ==
    \A m \in DOMAIN ms : ms[m].lib_id \in DOMAIN ls /\ ms[m].book_id \in DOMAIN bs

\* nullable=False columns
LibraryNotNull(row) == row.status # NoneStr /\ row.name # NoneStr
BookNotNull(row) == row.isbn # NoneIsbn /\ row.title # NoneStr /\ row.author # NoneStr
LibraryBookNotNull(row) == row.status # NoneStr

Init ==
    /\ libraries = EmptyTable
    /\ books = EmptyTable
    /\ library_books = EmptyTable
    /\ next_library_id = 1
    /\ next_book_id = 1
    /\ next_mapping_id = 1
    /\ response = Resp("startup", 0, "")
    /\ sessions = [w \in Workers |-> Idle]
    /\ exc = <<>>
    /\ request = NoRequest

\* ---- LibraryCRUD (crud/library) ------------------------------------------
\* mutant: the count is read and committed without the += 1
LibraryCRUD_increment_count_mut(ls, library_id) == ls

LibraryCRUD_increment_count(ls, library_id) ==
    IF library_id \notin DOMAIN ls THEN ls
    ELSE [ls EXCEPT ![library_id].count = @ + 1]

\* (defined by LibraryCRUD; no service-layer handler calls it)
LibraryCRUD_decrement_count(ls, library_id) ==
    IF library_id \notin DOMAIN ls THEN ls
    ELSE IF ls[library_id].count > 0
         THEN [ls EXCEPT ![library_id].count = @ - 1]
         ELSE ls

\* mutant: the relationship is declared without a cascade
LibraryCascade_mut(ms, library_id) == {}

\* relationship("LibraryBook", cascade="all, delete-orphan") on Library:
\* the mappings that go with a deleted library
LibraryCascade(ms, library_id) == {m \in DOMAIN ms : ms[m].lib_id = library_id}

\* relationship("LibraryBook", cascade="all, delete-orphan") on Book
BookCascade(ms, book_id) == {m \in DOMAIN ms : ms[m].book_id = book_id}

\* ---- LibraryService ------------------------------------------------------
create_library(library) ==
    /\ Allocated < MaxCreates
    /\ libraries' = Insert(libraries, autoincrement(libraries, next_library_id),
                           [name |-> library.name, dept |-> library.dept,
                            count |-> library.count, status |-> library.status])
    /\ next_library_id' = next_library_id + 1
    /\ response' = Resp("create_library", 201, "Library created successfully")
    /\ UNCHANGED <<request, exc, sessions, books, library_books, next_book_id, next_mapping_id>>

update_library(library_id, update_data) ==
    /\ IF library_id \notin DOMAIN libraries
       THEN /\ response' = Resp("update_library", 404, "Library not found")
            /\ UNCHANGED libraries
       ELSE LET row == ApplyUpdate(libraries[library_id], update_data)
            IN IF LibraryNotNull(row)
               THEN /\ libraries' = [libraries EXCEPT ![library_id] = row]
                    /\ response' = Resp("update_library", 200, "Library updated successfully")
               ELSE \* the IntegrityError leaves the handler uncaught
                    /\ response' = Resp("update_library", 500, CannotBeNull)
                    /\ UNCHANGED libraries
    /\ UNCHANGED <<request, exc, sessions, books, library_books, next_library_id, next_book_id, next_mapping_id>>

delete_library(library_id) ==
    /\ IF library_id \notin DOMAIN libraries
       THEN /\ response' = Resp("delete_library", 404, "Library not found")
            /\ UNCHANGED <<libraries, library_books>>
       ELSE /\ libraries' = Remove(libraries, {library_id})
            /\ library_books' = Remove(library_books, LibraryCascade(library_books, library_id))
            /\ response' = Resp("delete_library", 200, "Library deleted successfully")
    /\ UNCHANGED <<request, exc, sessions, books, next_library_id, next_book_id, next_mapping_id>>

\* the dict get_library_by_id returns for a stored library
LibraryDict(ls, library_id) ==
    [id |-> library_id, name |-> ls[library_id].name, dept |-> ls[library_id].dept,
     count |-> ls[library_id].count, status |-> ls[library_id].status]

get_library_by_id(library_id) ==
    /\ response' = IF library_id \notin DOMAIN libraries
                   THEN Resp("get_library_by_id", 404, "Library not found")
                   ELSE Resp("get_library_by_id", 200, "")
    /\ UNCHANGED <<request, exc, sessions, libraries, books, library_books,
                   next_library_id, next_book_id, next_mapping_id>>

\* if status: -- a status of None or "" is falsy and applies no filter
Truthy(status) == status # NoneStr /\ status # ""

\* mutant: the status filter is not applied
get_books_in_library_mut(ms, lib_id, status) ==
    {m \in DOMAIN ms : ms[m].lib_id = lib_id}

\* LibraryBookCRUD.get_books_in_library: the (ids of the) mappings the query
\* selects
get_books_in_library(ms, lib_id, status) ==
    {m \in DOMAIN ms : /\ ms[m].lib_id = lib_id
                       /\ Truthy(status) => ms[m].status = status}

\* the rows of a query result as a list, in primary-key order
RECURSIVE Rows(_)
Rows(ids) ==
    IF ids = {} THEN <<>>
    ELSE LET last == CHOOSE i \in ids : \A j \in ids : j <= i
         IN Append(Rows(ids \ {last}), last)

\* the list LibraryService.get_library_books returns for a stored library:
\* one dict per selected mapping, built from the mapping and its joined book
get_library_books_list(bs, ms, library_id, status) ==
    LET mappings == Rows(get_books_in_library(ms, library_id, status))
    IN [i \in 1..Len(mappings) |->
          LET mapping == ms[mappings[i]]
              book == bs[mapping.book_id]
          IN [book_id |-> mapping.book_id, title |-> book.title,
              status |-> mapping.status, author |-> book.author,
              category |-> book.category, isbn |-> book.isbn]]

get_library_books(library_id, status) ==
    /\ response' = IF library_id \notin DOMAIN libraries
                   THEN Resp("get_library_books", 404, "Library not found")
                   ELSE Resp("get_library_books", 200, "")
    /\ UNCHANGED <<request, exc, sessions, libraries, books, library_books,
                   next_library_id, next_book_id, next_mapping_id>>

\* ---- BookService / BookCRUD ----------------------------------------------
\* BookCRUD.create: db.add + db.commit; the commit fails when the unique
\* index on isbn is violated
BookCRUD_create_ok(bs, id, row) == BookIsbnUnique(Insert(bs, id, row))

create_book(book) ==
    /\ Allocated < MaxCreates
    /\ LET row == [title |-> book.title, author |-> book.author,
                   category |-> book.category, price |-> Numeric_10_2(book.price),
                   isbn |-> book.isbn]
           id == autoincrement(books, next_book_id)
       IN IF BookCRUD_create_ok(books, id, row)
          THEN /\ books' = Insert(books, id, row)
               /\ next_book_id' = next_book_id + 1
               /\ response' = Resp("create_book", 201, "Book created successfully")
          ELSE \* except Exception as e: HTTPException(400, str(e))
               /\ response' = Resp("create_book", 400, DuplicateEntry)
               /\ UNCHANGED <<books, next_book_id>>
    /\ UNCHANGED <<request, exc, sessions, libraries, library_books, next_library_id, next_mapping_id>>

update_book(book_id, update_data) ==
    /\ IF book_id \notin DOMAIN books
       THEN /\ response' = Resp("update_book", 404, "Book not found")
            /\ UNCHANGED books
       ELSE LET set == ApplyUpdate(books[book_id], update_data)
                row == [set EXCEPT !.price = Numeric_10_2(@)]
                bs == [books EXCEPT ![book_id] = row]
            IN IF ~BookNotNull(row)
               THEN /\ response' = Resp("update_book", 500, CannotBeNull)
                    /\ UNCHANGED books
               ELSE IF ~BookIsbnUnique(bs)
               THEN /\ response' = Resp("update_book", 500, DuplicateEntry)
                    /\ UNCHANGED books
               ELSE /\ books' = bs
                    /\ response' = Resp("update_book", 200, "Book updated successfully")
    /\ UNCHANGED <<request, exc, sessions, libraries, library_books, next_library_id, next_book_id, next_mapping_id>>

delete_book(book_id) ==
    /\ IF book_id \notin DOMAIN books
       THEN /\ response' = Resp("delete_book", 404, "Book not found")
            /\ UNCHANGED <<books, library_books>>
       ELSE /\ books' = Remove(books, {book_id})
            /\ library_books' = Remove(library_books, BookCascade(library_books, book_id))
            /\ response' = Resp("delete_book", 200, "Book deleted successfully")
    /\ UNCHANGED <<request, exc, sessions, libraries, next_library_id, next_book_id, next_mapping_id>>

\* the dict get_book_by_id returns for a stored book
BookDict(bs, book_id) ==
    [id |-> book_id, title |-> bs[book_id].title, author |-> bs[book_id].author,
     category |-> bs[book_id].category, price |-> bs[book_id].price,
     isbn |-> bs[book_id].isbn]

get_book_by_id(book_id) ==
    /\ response' = IF book_id \notin DOMAIN books
                   THEN Resp("get_book_by_id", 404, "Book not found")
                   ELSE Resp("get_book_by_id", 200, "")
    /\ UNCHANGED <<request, exc, sessions, libraries, books, library_books,
                   next_library_id, next_book_id, next_mapping_id>>

\* ---- LibraryBookService / LibraryBookCRUD --------------------------------
\* mutant: the query filters on nothing that matches
get_by_library_and_book_mut(ms, lib_id, book_id) == FALSE

\* LibraryBookCRUD.get_by_library_and_book(...) is not None
get_by_library_and_book(ms, lib_id, book_id) ==
    \E m \in DOMAIN ms : ms[m].lib_id = lib_id /\ ms[m].book_id = book_id

\* mutant: a missing library is answered 404, as the other endpoints do
create_mapping_checks_mut(ls, bs, ms, lib_id, book_id) ==
    IF lib_id \notin DOMAIN ls THEN [status |-> 404, detail |-> "Library not found"]
    ELSE IF book_id \notin DOMAIN bs THEN [status |-> 400, detail |-> "Book not found"]
    ELSE IF \E m \in DOMAIN ms : ms[m].lib_id = lib_id /\ ms[m].book_id = book_id
         THEN [status |-> 409, detail |-> "Mapping already exists"]
    ELSE [status |-> 0, detail |-> ""]

\* the three checks of create_mapping before the insert: the status and
\* detail of the HTTPException raised, or status 0 when all pass
create_mapping_checks(ls, bs, ms, lib_id, book_id) ==
    IF lib_id \notin DOMAIN ls THEN [status |-> 400, detail |-> "Library not found"]
    ELSE IF book_id \notin DOMAIN bs THEN [status |-> 400, detail |-> "Book not found"]
    ELSE IF get_by_library_and_book(ms, lib_id, book_id)
         THEN [status |-> 409, detail |-> "Mapping already exists"]
    ELSE [status |-> 0, detail |-> ""]

\* the commit of a changed library_books table: "" when the database
\* accepts it, else the message of the IntegrityError
LibraryBookCommit(ms, ls, bs) ==
    IF \E m \in DOMAIN ms : ~LibraryBookNotNull(ms[m]) THEN CannotBeNull
    ELSE IF ~unique_library_book(ms) THEN DuplicateEntry
    ELSE IF ~ForeignKeys(ms, ls, bs) THEN ForeignKeyFails
    ELSE ""

create_mapping(lib_id, book_id, status) ==
    /\ Allocated < MaxCreates
    /\ LET chk == create_mapping_checks(libraries, books, library_books, lib_id, book_id)
           row == [lib_id |-> lib_id, book_id |-> book_id, status |-> status]
           ms == Insert(library_books, autoincrement(library_books, next_mapping_id), row)
           err == LibraryBookCommit(ms, libraries, books)
       IN IF chk.status # 0
          THEN /\ response' = Resp("create_mapping", chk.status, chk.detail)
               /\ UNCHANGED <<libraries, library_books, next_mapping_id>>
          ELSE IF err # ""
          THEN \* except Exception as e: HTTPException(400, str(e))
               /\ response' = Resp("create_mapping", 400, err)
               /\ UNCHANGED <<libraries, library_books, next_mapping_id>>
          ELSE /\ library_books' = ms
               /\ next_mapping_id' = next_mapping_id + 1
               /\ libraries' = LibraryCRUD_increment_count(libraries, lib_id)
               /\ response' = Resp("create_mapping", 201, "Book linked to library successfully")
    /\ UNCHANGED <<request, exc, sessions, books, next_library_id, next_book_id>>

\* ---- create_mapping, one database round trip at a time --------------------
\* str(e) of an error that is not an IntegrityError
OperationalError == "OperationalError: Lost connection to MySQL server"

\* mappings whose insert is still to come
Inserting == Cardinality({w \in Workers : sessions[w].pc = "create"})

\* the request arrives and runs its three checks (reads of one transaction)
create_mapping_check(w, lib_id, book_id, status) ==
    /\ sessions[w].pc = "idle"
    /\ Allocated + Inserting < MaxCreates
    /\ LET chk == create_mapping_checks(libraries, books, library_books, lib_id, book_id)
       IN IF chk.status # 0
          THEN /\ response' = Resp("create_mapping", chk.status, chk.detail)
               /\ UNCHANGED sessions
          ELSE /\ sessions' = [sessions EXCEPT ![w] =
                     [Idle EXCEPT !.pc = "create", !.lib_id = lib_id,
                                  !.book_id = book_id, !.status = status]]
               /\ UNCHANGED response
    /\ UNCHANGED <<request, exc, libraries, books, library_books,
                   next_library_id, next_book_id, next_mapping_id>>

\* self.crud.create: db.add, db.commit -- the first commit
LibraryBookCRUD_create(w) ==
    /\ sessions[w].pc = "create"
    /\ LET id == autoincrement(library_books, next_mapping_id)
           row == [lib_id |-> sessions[w].lib_id, book_id |-> sessions[w].book_id,
                   status |-> sessions[w].status]
           ms == Insert(library_books, id, row)
           err == LibraryBookCommit(ms, libraries, books)
       IN IF err # ""
          THEN \* except Exception as e: HTTPException(400, str(e))
               /\ response' = Resp("create_mapping", 400, err)
               /\ sessions' = [sessions EXCEPT ![w] = Idle]
               /\ UNCHANGED <<library_books, next_mapping_id>>
          ELSE /\ library_books' = ms
               /\ next_mapping_id' = next_mapping_id + 1
               /\ sessions' = [sessions EXCEPT ![w].pc = "increment_count",
                                               ![w].mapping_id = id]
               /\ UNCHANGED response
    /\ UNCHANGED <<request, exc, libraries, books, next_library_id, next_book_id>>

\* increment_count: db.query(Library).filter(...).first() -- a fresh read,
\* the commit of the insert having expired what the session held
increment_count_query(w) ==
    /\ sessions[w].pc = "increment_count"
    /\ IF sessions[w].lib_id \notin DOMAIN libraries
       THEN \* return None; create_mapping returns its success all the same
            /\ response' = Resp("create_mapping", 201, "Book linked to library successfully")
            /\ sessions' = [sessions EXCEPT ![w] = Idle]
       ELSE /\ sessions' = [sessions EXCEPT ![w].pc = "commit",
                                            ![w].count = libraries[sessions[w].lib_id].count]
            /\ UNCHANGED response
    /\ UNCHANGED <<request, exc, libraries, books, library_books,
                   next_library_id, next_book_id, next_mapping_id>>

\* increment_count: db_library.count += 1; db.commit() -- the second commit,
\* an UPDATE that sets count to the value read plus one
increment_count_commit(w) ==
    /\ sessions[w].pc = "commit"
    /\ IF sessions[w].lib_id \notin DOMAIN libraries
       THEN \* the row is gone: the UPDATE matches nothing, the flush raises
            /\ response' = Resp("create_mapping", 400, "StaleDataError")
            /\ UNCHANGED libraries
       ELSE /\ libraries' = [libraries EXCEPT ![sessions[w].lib_id].count =
                                                   sessions[w].count + 1]
            /\ response' = Resp("create_mapping", 201, "Book linked to library successfully")
    /\ sessions' = [sessions EXCEPT ![w] = Idle]
    /\ UNCHANGED <<request, exc, books, library_books, next_library_id, next_book_id, next_mapping_id>>

\* mutant: the failure undoes the insert
create_mapping_fails_mut(w) ==
    /\ sessions[w].pc \in {"create", "increment_count", "commit"}
    /\ response' = Resp("create_mapping", 400, OperationalError)
    /\ sessions' = [sessions EXCEPT ![w] = Idle]
    /\ library_books' = Remove(library_books, {sessions[w].mapping_id})
    /\ UNCHANGED <<request, exc, libraries, books, next_library_id, next_book_id, next_mapping_id>>

\* a database call raises (the connection is lost, say): except Exception
\* turns it into a 400 and the session is closed; nothing that was
\* committed is taken back
create_mapping_fails(w) ==
    /\ sessions[w].pc \in {"create", "increment_count", "commit"}
    /\ response' = Resp("create_mapping", 400, OperationalError)
    /\ sessions' = [sessions EXCEPT ![w] = Idle]
    /\ UNCHANGED <<request, exc, libraries, books, library_books,
                   next_library_id, next_book_id, next_mapping_id>>

\* LibraryBookCRUD.update: the table after the setattr loop
LibraryBookCRUD_update(ms, mapping_id, update_data) ==
    [ms EXCEPT ![mapping_id] = ApplyUpdate(ms[mapping_id], update_data)]

update_mapping(mapping_id, update_data) ==
    /\ IF mapping_id \notin DOMAIN library_books
       THEN /\ response' = Resp("update_mapping", 404, "Library-book mapping not found")
            /\ UNCHANGED library_books
       ELSE LET ms == LibraryBookCRUD_update(library_books, mapping_id, update_data)
                err == LibraryBookCommit(ms, libraries, books)
            IN IF err = ""
               THEN /\ library_books' = ms
                    /\ response' = Resp("update_mapping", 200,
                                        "Library-book mapping updated successfully")
               ELSE \* the IntegrityError leaves the handler uncaught
                    /\ response' = Resp("update_mapping", 500, err)
                    /\ UNCHANGED library_books
    /\ UNCHANGED <<request, exc, sessions, libraries, books, next_library_id, next_book_id, next_mapping_id>>

\* the dict get_mapping_by_id returns for a stored mapping
MappingDict(ms, mapping_id) ==
    [id |-> mapping_id, lib_id |-> ms[mapping_id].lib_id,
     book_id |-> ms[mapping_id].book_id, status |-> ms[mapping_id].status]

get_mapping_by_id(mapping_id) ==
    /\ response' = IF mapping_id \notin DOMAIN library_books
                   THEN Resp("get_mapping_by_id", 404, "Library-book mapping not found")
                   ELSE Resp("get_mapping_by_id", 200, "")
    /\ UNCHANGED <<request, exc, sessions, libraries, books, library_books,
                   next_library_id, next_book_id, next_mapping_id>>

\* mutant: db.delete and the success answer without the 'if not' check
delete_mapping_mut(mapping_id) ==
    /\ library_books' = Remove(library_books, {mapping_id})
    /\ response' = Resp("delete_mapping", 200, "Library-book mapping deleted successfully")
    /\ UNCHANGED <<request, exc, sessions, libraries, books, next_library_id, next_book_id, next_mapping_id>>

delete_mapping(mapping_id) ==
    /\ IF mapping_id \notin DOMAIN library_books
       THEN /\ response' = Resp("delete_mapping", 404, "Library-book mapping not found")
            /\ UNCHANGED library_books
       ELSE /\ library_books' = Remove(library_books, {mapping_id})
            /\ response' = Resp("delete_mapping", 200,
                                "Library-book mapping deleted successfully")
    /\ UNCHANGED <<request, exc, sessions, libraries, books, next_library_id, next_book_id, next_mapping_id>>

\* ---- request bodies ------------------------------------------------------
LibraryCreateBodies ==
    [name : Names, dept : Depts, count : 0..MaxCountInput, status : LibraryStatusInputs]

BookCreateBodies ==
    [title : Titles, author : Authors, category : Categories, price : Prices, isbn : Isbns]

LibraryUpdateBodies ==
    PartialBodies({"name", "count", "status"},
                  [name |-> Names,
                   count |-> 0..MaxCountInput,
                   status |-> LibraryStatusInputs \cup {NoneStr}])

BookUpdateBodies ==
    PartialBodies({"title", "isbn"}, [title |-> Titles, isbn |-> Isbns \cup {NoneIsbn}])

LibraryBookUpdateBodies ==
    PartialBodies({"lib_id", "book_id", "status"},
                  [lib_id |-> LibIdInputs,
                   book_id |-> BookIdInputs,
                   status |-> StatusValues \cup {NoneStr}])

Next ==
    \/ \E library \in LibraryCreateBodies : create_library(library)
    \/ \E id \in LibIdInputs, u \in LibraryUpdateBodies : update_library(id, u)
    \/ \E id \in LibIdInputs : delete_library(id)
    \/ \E book \in BookCreateBodies : create_book(book)
    \/ \E id \in BookIdInputs, u \in BookUpdateBodies : update_book(id, u)
    \/ \E id \in BookIdInputs : delete_book(id)
    \/ \E l \in LibIdInputs, b \in BookIdInputs, s \in StatusValues : create_mapping(l, b, s)
    \/ \E id \in MapIdInputs, u \in LibraryBookUpdateBodies : update_mapping(id, u)
    \/ \E id \in MapIdInputs : delete_mapping(id)

Spec == Init /\ [][Next]_vars

\* ---- request validation (the schemas FastAPI parses a body with) ----------
\* mutant: count is declared without ge=0
LibraryCreate_valid_mut(body) ==
    /\ "name" \in DOMAIN body /\ body.name # ""
    /\ "status" \in DOMAIN body => body.status \in StatusValues

\* LibraryCreate: name is required with min_length=1, count has ge=0, status
\* is a LibraryStatus
LibraryCreate_valid(body) ==
    /\ "name" \in DOMAIN body /\ body.name # ""
    /\ "count" \in DOMAIN body => body.count >= 0
    /\ "status" \in DOMAIN body => body.status \in StatusValues

\* the parsed LibraryCreate: dept, count and status have defaults
LibraryCreate(body) ==
    [name |-> body.name,
     dept |-> IF "dept" \in DOMAIN body THEN body.dept ELSE NoneStr,
     count |-> IF "count" \in DOMAIN body THEN body.count ELSE 0,
     status |-> IF "status" \in DOMAIN body THEN body.status ELSE Active]

\* str.isdigit() on ASCII text: not empty and every character a digit
DigitChars == {"0", "1", "2", "3", "4", "5", "6", "7", "8", "9"}

isdigit(s) == Len(s) > 0 /\ \A i \in 1..Len(s) : s[i] \in DigitChars

\* the characters the pattern [-\s] matches
Whitespace == {" ", "\t"}

\* isbn_clean = re.sub(r'[-\s]', '', v)
isbn_clean(v) == SelectSeq(v, LAMBDA c : c # "-" /\ c \notin Whitespace)

\* mutant: the length test looks at v, not at isbn_clean
validate_isbn_mut(v) == isdigit(isbn_clean(v)) /\ Len(v) \in {10, 13}

\* BookBase.validate_isbn: TRUE when no ValueError is raised (the validator
\* then returns v as it came)
validate_isbn(v) ==
    /\ isdigit(isbn_clean(v))
    /\ Len(isbn_clean(v)) \in {10, 13}

\* BookCreate: title, author, price and isbn are required, title and author
\* have min_length=1, price has gt=0, isbn has min_length=10, max_length=20
\* and, those passed, its validator
BookCreate_valid(body) ==
    /\ {"title", "author", "price", "isbn"} \subseteq DOMAIN body
    /\ body.title # "" /\ body.author # ""
    /\ body.price > 0
    /\ Len(body.isbn) >= 10 /\ Len(body.isbn) <= 20
    /\ validate_isbn(body.isbn)

\* the parsed BookCreate: category defaults to None
BookCreate(body) ==
    [title |-> body.title, author |-> body.author,
     category |-> IF "category" \in DOMAIN body THEN body.category ELSE NoneStr,
     price |-> body.price, isbn |-> body.isbn]

\* LibraryBookCreate: lib_id and book_id are required with gt=0, status is a
\* MappingStatus
LibraryBookCreate_valid(body) ==
    /\ {"lib_id", "book_id"} \subseteq DOMAIN body
    /\ body.lib_id > 0 /\ body.book_id > 0
    /\ "status" \in DOMAIN body => body.status \in StatusValues

\* the parsed LibraryBookCreate: status defaults to Active
LibraryBookCreate(body) ==
    [lib_id |-> body.lib_id, book_id |-> body.book_id,
     status |-> IF "status" \in DOMAIN body THEN body.status ELSE Active]

\* a body the schema rejects never reaches the endpoint function: FastAPI
\* answers the RequestValidationError with 422
Unprocessable(op) ==
    /\ response' = Resp(op, 422, "Validation error")
    /\ UNCHANGED <<request, exc, sessions, libraries, books, library_books,
                   next_library_id, next_book_id, next_mapping_id>>

\* POST /libraries
POST_libraries(body) ==
    IF LibraryCreate_valid(body) THEN create_library(LibraryCreate(body))
    ELSE Unprocessable("create_library")

\* POST /books
POST_books(body) ==
    IF BookCreate_valid(body) THEN create_book(BookCreate(body))
    ELSE Unprocessable("create_book")

\* POST /library-books
POST_library_books(body) ==
    IF LibraryBookCreate_valid(body)
    THEN LET mapping == LibraryBookCreate(body)
         IN create_mapping(mapping.lib_id, mapping.book_id, mapping.status)
    ELSE Unprocessable("create_mapping")

\* the bodies of the POST requests, well-formed or not
LibraryRawBodies ==
    PartialBodies({"name", "count", "status"},
                  [name |-> Names \cup {""}, count |-> {-1, 0},
                   status |-> StatusValues \cup {"InvalidStatus"}])

BookRawBodies ==
    PartialBodies({"title", "author", "category", "price", "isbn"},
                  [title |-> Titles, author |-> Authors, category |-> Categories,
                   price |-> Prices \cup {0, -1000}, isbn |-> Isbns])

LibraryBookRawBodies ==
    PartialBodies({"lib_id", "book_id", "status"},
                  [lib_id |-> {-1, 0} \cup LibIdInputs,
                   book_id |-> {-1, 0} \cup BookIdInputs,
                   status |-> StatusValues \cup {"InvalidStatus"}])

\* the bodies of the PUT requests (all of them well-formed)
LibraryFieldUpdates ==
    PartialBodies({"name", "dept", "count", "status"},
                  [name |-> {"Updated Library Name"}, dept |-> {NoneStr},
                   count |-> {2}, status |-> {Inactive, NoneStr}])

\* (a price of 29.999)
BookFieldUpdates ==
    PartialBodies({"author", "category", "price", "isbn"},
                  [author |-> {NoneStr}, category |-> {NoneStr},
                   price |-> {29999}, isbn |-> Isbns])

\* the create and update endpoints with whole request bodies, on few rows
NextFields ==
    \/ Allocated < MaxFieldRows /\ \E body \in LibraryRawBodies : POST_libraries(body)
    \/ Allocated < MaxFieldRows /\ \E body \in BookRawBodies : POST_books(body)
    \/ Allocated < MaxFieldRows /\ \E body \in LibraryBookRawBodies : POST_library_books(body)
    \/ \E id \in LibIdInputs, u \in LibraryFieldUpdates : update_library(id, u)
    \/ \E id \in BookIdInputs, u \in BookFieldUpdates : update_book(id, u)
    \/ \E id \in MapIdInputs, u \in LibraryBookUpdateBodies : update_mapping(id, u)

SpecFields == Init /\ [][NextFields]_vars

\* ---- the legacy endpoints under /api/v1/library-books ----------------------
\* POST /api/v1/library-books: LibraryBookCRUD.create inside try / except
create_library_book(lib_id, book_id, status) ==
    /\ Allocated < MaxCreates
    /\ LET row == [lib_id |-> lib_id, book_id |-> book_id, status |-> status]
           ms == Insert(library_books, autoincrement(library_books, next_mapping_id), row)
           err == LibraryBookCommit(ms, libraries, books)
       IN IF err # ""
          THEN \* except Exception as e: HTTPException(400, str(e))
               /\ response' = Resp("create_library_book", 400, err)
               /\ UNCHANGED <<library_books, next_mapping_id>>
          ELSE /\ library_books' = ms
               /\ next_mapping_id' = next_mapping_id + 1
               /\ response' = Resp("create_library_book", 201, "")
    /\ UNCHANGED <<request, exc, sessions, libraries, books, next_library_id, next_book_id>>

\* PUT /api/v1/library-books/{mapping_id}
update_library_book(mapping_id, update_data) ==
    /\ IF mapping_id \notin DOMAIN library_books
       THEN /\ response' = Resp("update_library_book", 404, "Mapping not found")
            /\ UNCHANGED library_books
       ELSE LET ms == LibraryBookCRUD_update(library_books, mapping_id, update_data)
                err == LibraryBookCommit(ms, libraries, books)
            IN IF err = ""
               THEN /\ library_books' = ms
                    /\ response' = Resp("update_library_book", 200, "")
               ELSE \* the IntegrityError leaves the endpoint uncaught
                    /\ response' = Resp("update_library_book", 500, err)
                    /\ UNCHANGED library_books
    /\ UNCHANGED <<request, exc, sessions, libraries, books,
                   next_library_id, next_book_id, next_mapping_id>>

\* DELETE /api/v1/library-books/{mapping_id}
delete_library_book(mapping_id) ==
    /\ IF mapping_id \notin DOMAIN library_books
       THEN /\ response' = Resp("delete_library_book", 404, "Mapping not found")
            /\ UNCHANGED library_books
       ELSE /\ library_books' = Remove(library_books, {mapping_id})
            /\ response' = Resp("delete_library_book", 200, "Mapping deleted successfully")
    /\ UNCHANGED <<request, exc, sessions, libraries, books,
                   next_library_id, next_book_id, next_mapping_id>>

\* the mapping endpoints of both generations, with the creates they need
NextLegacy ==
    \/ Allocated < MaxLegacyRows /\ \E library \in LibraryCreateBodies : create_library(library)
    \/ Allocated < MaxLegacyRows /\ \E book \in BookCreateBodies : create_book(book)
    \/ Allocated < MaxLegacyRows /\
          \E l \in LibIdInputs, b \in BookIdInputs, s \in StatusValues : create_mapping(l, b, s)
    \/ Allocated < MaxLegacyRows /\
          \E l \in LibIdInputs, b \in BookIdInputs, s \in StatusValues :
              create_library_book(l, b, s)
    \/ \E id \in MapIdInputs, u \in LibraryBookUpdateBodies : update_mapping(id, u)
    \/ \E id \in MapIdInputs, u \in LibraryBookUpdateBodies : update_library_book(id, u)
    \/ \E id \in MapIdInputs : delete_mapping(id)
    \/ \E id \in MapIdInputs : delete_library_book(id)

SpecLegacy == Init /\ [][NextLegacy]_vars

\* ---- the count methods of LibraryCRUD, called on their own ------------------
\* LibraryUpdate: every field is optional; name has min_length=1, count has
\* ge=0, status is a LibraryStatus; extra="forbid"
LibraryUpdate_valid(body) ==
    /\ DOMAIN body \subseteq {"name", "dept", "count", "status"}
    /\ "name" \in DOMAIN body => body.name # ""
    /\ "count" \in DOMAIN body => body.count >= 0
    /\ "status" \in DOMAIN body => body.status \in StatusValues

\* PUT /libraries/{library_id}
PUT_libraries(library_id, body) ==
    IF LibraryUpdate_valid(body) THEN update_library(library_id, body)
    ELSE Unprocessable("update_library")

\* what a CRUD method returns: None, or the library it has refreshed
Returned(op, library_id) ==
    Resp(op, 0, IF library_id \in DOMAIN libraries THEN "Library" ELSE "None")

\* mutant: the count test is left out
decrement_count_mut(library_id) ==
    /\ libraries' = IF library_id \notin DOMAIN libraries THEN libraries
                    ELSE [libraries EXCEPT ![library_id].count = @ - 1]
    /\ response' = Returned("decrement_count", library_id)
    /\ UNCHANGED <<request, exc, sessions, books, library_books,
                   next_library_id, next_book_id, next_mapping_id>>

\* LibraryCRUD.decrement_count(db, library_id)
decrement_count(library_id) ==
    /\ libraries' = LibraryCRUD_decrement_count(libraries, library_id)
    /\ response' = Returned("decrement_count", library_id)
    /\ UNCHANGED <<request, exc, sessions, books, library_books,
                   next_library_id, next_book_id, next_mapping_id>>

\* mutant: the query counts the mappings of the library whatever their status
LibraryCRUD_update_book_count_mut(ls, ms, library_id) ==
    IF library_id \notin DOMAIN ls THEN ls
    ELSE [ls EXCEPT ![library_id].count =
             Cardinality({m \in DOMAIN ms : ms[m].lib_id = library_id})]

\* LibraryCRUD.update_book_count: the libraries table after the commit
LibraryCRUD_update_book_count(ls, ms, library_id) ==
    IF library_id \notin DOMAIN ls THEN ls
    ELSE LET count == Cardinality({m \in DOMAIN ms : /\ ms[m].lib_id = library_id
                                                      /\ ms[m].status = "Active"})
         IN [ls EXCEPT ![library_id].count = count]

\* LibraryCRUD.update_book_count(db, library_id)
update_book_count(library_id) ==
    /\ libraries' = LibraryCRUD_update_book_count(libraries, library_books, library_id)
    /\ response' = Returned("update_book_count", library_id)
    /\ UNCHANGED <<request, exc, sessions, books, library_books,
                   next_library_id, next_book_id, next_mapping_id>>

\* the bodies of the library requests, the count in them negative or not
LibraryCountBodies ==
    PartialBodies({"name", "count"}, [name |-> Names, count |-> {-1, 0}])

\* the status updates of a mapping
MappingStatusUpdates == PartialBodies({"status"}, [status |-> StatusValues])

NextCount ==
    \/ Allocated < MaxCountRows /\ \E body \in LibraryCountBodies : POST_libraries(body)
    \/ \E id \in LibIdInputs, body \in LibraryCountBodies : PUT_libraries(id, body)
    \/ Allocated < MaxCountRows /\ \E book \in BookCreateBodies : create_book(book)
    \/ Allocated < MaxCountRows /\
          \E l \in LibIdInputs, b \in BookIdInputs, s \in StatusValues : create_mapping(l, b, s)
    \/ \E id \in MapIdInputs, u \in MappingStatusUpdates : update_mapping(id, u)
    \/ \E id \in LibIdInputs : decrement_count(id)
    \/ \E id \in LibIdInputs : update_book_count(id)

SpecCount == Init /\ [][NextCount]_vars

\* ---- GET /books and GET /api/v1/books ---------------------------------------
\* query.offset(skip)
RECURSIVE offset(_, _)
offset(rows, skip) ==
    IF skip = 0 \/ rows = <<>> THEN rows ELSE offset(Tail(rows), skip - 1)

\* query.limit(limit)
RECURSIVE limit(_, _)
limit(rows, n) ==
    IF n = 0 \/ rows = <<>> THEN <<>> ELSE <<Head(rows)>> \o limit(Tail(rows), n - 1)

\* BookCRUD.get_multi(db, skip, limit, category=category): the (ids of the)
\* books of the page and the number of books the filters select; a category
\* of None or "" is falsy and applies no filter
get_multi(bs, skip, n, category) ==
    LET query == {b \in DOMAIN bs : Truthy(category) => bs[b].category = category}
    IN [books |-> limit(offset(Rows(query), skip), n),
        total |-> Cardinality(query)]

\* str(e) of the error raised by a call of a method the class does not have
AttributeError ==
    "AttributeError: 'BookService' object has no attribute 'get_books_paginated'"

\* GET /books: service.get_books_paginated(page, limit) -- BookService
\* defines no such method, the call raises and nothing catches it
get_books(page, n) ==
    /\ response' = Resp("get_books", 500, AttributeError)
    /\ UNCHANGED <<request, exc, sessions, libraries, books, library_books,
                   next_library_id, next_book_id, next_mapping_id>>

\* BookListResponse(...): page, size and pages are declared with ge=1
BookListResponse_valid(r) == r.page >= 1 /\ r.size >= 1 /\ r.pages >= 1

\* str(e) of the pydantic ValidationError
ValidationError == "ValidationError: 1 validation error for BookListResponse"

\* GET /api/v1/books (the legacy get_books of main.py)
api_v1_get_books(page, size, category) ==
    /\ LET skip == (page - 1) * size
           found == get_multi(books, skip, size, category)
           r == [books |-> [i \in 1..Len(found.books) |-> BookDict(books, found.books[i])],
                 total |-> found.total,
                 page |-> page,
                 size |-> size,
                 pages |-> (found.total + size - 1) \div size]
       IN response' = IF BookListResponse_valid(r)
                      THEN [op |-> "api_v1_get_books", status |-> 200, detail |-> "", body |-> r]
                      ELSE Resp("api_v1_get_books", 500, ValidationError)
    /\ UNCHANGED <<request, exc, sessions, libraries, books, library_books,
                   next_library_id, next_book_id, next_mapping_id>>

\* the isbns of the books test_list_books_with_pagination creates
ListIsbns == {SubSeq(ISBN13, 1, 12) \o <<d>> : d \in {"0", "1", "2"}}

ListBookBodies ==
    [title : Titles, author : Authors, category : Categories, price : Prices,
     isbn : ListIsbns]

\* the category filters a GET /api/v1/books supplies
CategoryFilters == {NoneStr, "", "Test Category", "Fiction"}

NextList ==
    \/ Allocated < MaxListBooks /\ \E book \in ListBookBodies : create_book(book)
    \/ \E id \in BookIdInputs : delete_book(id)
    \/ \E page \in 1..MaxPage, n \in 1..MaxPageSize : get_books(page, n)
    \/ \E page \in 1..MaxPage, size \in 1..MaxPageSize, category \in CategoryFilters :
          api_v1_get_books(page, size, category)

SpecList == Init /\ [][NextList]_vars

\* ---- POST /books, the isbn of the body varying ------------------------------
\* the i-th digit of a run of digits
Digit(i) == ISBN13[((i - 1) % 13) + 1]

\* h hyphens, then s whitespace characters (space and tab by turns)
Separators(h, s) ==
    [i \in 1..(h + s) |-> IF i <= h THEN "-"
                          ELSE IF (i - h) % 2 = 1 THEN " " ELSE "\t"]

\* the digits i..d with one of the separators after every third digit, and
\* the separators left over at the end
RECURSIVE Interleave(_, _, _)
Interleave(i, d, seps) ==
    IF i > d THEN seps
    ELSE IF i % 3 = 0 /\ seps # <<>>
         THEN <<Digit(i), Head(seps)>> \o Interleave(i + 1, d, Tail(seps))
         ELSE <<Digit(i)>> \o Interleave(i + 1, d, seps)

IsbnTexts ==
    {Interleave(1, d, Separators(h, s)) \o x :
        d \in 0..MaxIsbnDigits, h \in 0..MaxHyphens, s \in 0..MaxSpaces,
        x \in {<<>>, <<"X">>}}

\* the isbn strings of test_book_isbn_validation that are not plain digits
TestIsbns ==
    {<<"9", "7", "8", "-", "1", "-", "2", "3", "4", "-", "5", "6", "7", "8", "9", "-", "0">>,
     <<"a", "b", "c", "1", "2", "3">>}

IsbnBodies ==
    {[title |-> "Test Book", author |-> "Test Author", price |-> 100000, isbn |-> v] :
        v \in IsbnTexts \cup TestIsbns}

\* a POST /books request arrives
ReceiveBook(body) ==
    /\ Allocated < MaxIsbnRows
    /\ request' = body
    /\ response' = Resp("received", 0, "")
    /\ UNCHANGED <<exc, sessions, libraries, books, library_books,
                   next_library_id, next_book_id, next_mapping_id>>

\* FastAPI parses the body as a BookCreate and, if it is one, calls the endpoint
HandleBook ==
    /\ request # NoRequest
    /\ response.status = 0
    /\ POST_books(request)

NextIsbn ==
    \/ \E body \in IsbnBodies : ReceiveBook(body)
    \/ HandleBook

SpecIsbn == Init /\ [][NextIsbn]_vars

\* ---- exception_handlers.integrity_error_handler ---------------------------
\* str(exc.orig) as a list of phrases; "x in error_message" holds when x is
\* one of the phrases
Phrases ==
    {"Duplicate entry", "duplicate entry", "UNIQUE constraint", "unique constraint",
     "FOREIGN KEY constraint", "foreign key constraint",
     "Cannot add or update a child row", "cannot add or update a child row",
     "for key 'books.isbn'", "Column 'title' cannot be null"}

RECURSIVE MessagesOfLen(_)
MessagesOfLen(n) ==
    IF n = 0 THEN {<<>>}
    ELSE {Append(m, p) : m \in MessagesOfLen(n - 1), p \in Phrases}

Messages == UNION {MessagesOfLen(n) : n \in 1..MaxMessageLen}

\* str.lower() of a phrase
Lower(phrase) ==
    CASE phrase = "Duplicate entry" -> "duplicate entry"
      [] phrase = "UNIQUE constraint" -> "unique constraint"
      [] phrase = "FOREIGN KEY constraint" -> "foreign key constraint"
      [] phrase = "Cannot add or update a child row" -> "cannot add or update a child row"
      [] phrase = "Column 'title' cannot be null" -> "column 'title' cannot be null"
      [] OTHER -> phrase

\* error_message.lower()
lower(error_message) == [i \in DOMAIN error_message |-> Lower(error_message[i])]

\* x in error_message
In(x, error_message) == \E i \in DOMAIN error_message : error_message[i] = x

\* get_error_response: the body always has "detail", and "errors" when given
get_error_response(detail, errors) ==
    IF errors # <<>> THEN [detail |-> detail, errors |-> errors]
    ELSE [detail |-> detail]

JSONResponse(status_code, content) == [status_code |-> status_code, content |-> content]

\* mutant: the foreign-key test comes first
integrity_error_handler_mut(error_message) ==
    IF \/ In("foreign key constraint", lower(error_message))
       \/ In("Cannot add or update a child row", error_message)
    THEN JSONResponse(400, get_error_response("Referenced record does not exist",
             <<[field |-> "foreign_key",
                message |-> "The referenced record does not exist",
                type |-> "foreign_key_constraint_violation"]>>))
    ELSE IF \/ In("Duplicate entry", error_message)
            \/ In("unique constraint", lower(error_message))
    THEN JSONResponse(409, get_error_response("Duplicate entry - this record already exists",
             <<[field |-> "unknown",
                message |-> "This value already exists and must be unique",
                type |-> "unique_constraint_violation"]>>))
    ELSE JSONResponse(400, get_error_response("Database integrity constraint violation", <<>>))

integrity_error_handler(error_message) ==
    IF \/ In("Duplicate entry", error_message)
       \/ In("unique constraint", lower(error_message))
    THEN LET field == IF In("for key 'books.isbn'", error_message)
                      THEN "books.isbn" ELSE "unknown"
         IN JSONResponse(409, get_error_response("Duplicate entry - this record already exists",
               <<[field |-> field,
                  message |-> "This value already exists and must be unique",
                  type |-> "unique_constraint_violation"]>>))
    ELSE IF \/ In("foreign key constraint", lower(error_message))
            \/ In("Cannot add or update a child row", error_message)
    THEN JSONResponse(400, get_error_response("Referenced record does not exist",
             <<[field |-> "foreign_key",
                message |-> "The referenced record does not exist",
                type |-> "foreign_key_constraint_violation"]>>))
    ELSE JSONResponse(400, get_error_response("Database integrity constraint violation", <<>>))

\* no response yet
Pending == JSONResponse(0, get_error_response("", <<>>))

\* an IntegrityError with this message reaches the handler
IntegrityError(error_message) ==
    /\ exc' = error_message
    /\ response' = Pending
    /\ UNCHANGED <<request, libraries, books, library_books,
                   next_library_id, next_book_id, next_mapping_id, sessions>>

\* the handler answers it
HandleIntegrityError ==
    /\ response = Pending
    /\ response' = integrity_error_handler(exc)
    /\ UNCHANGED <<request, exc, libraries, books, library_books,
                   next_library_id, next_book_id, next_mapping_id, sessions>>

InitHandler ==
    /\ libraries = EmptyTable
    /\ books = EmptyTable
    /\ library_books = EmptyTable
    /\ next_library_id = 1
    /\ next_book_id = 1
    /\ next_mapping_id = 1
    /\ sessions = [w \in Workers |-> Idle]
    /\ exc \in Messages
    /\ response = Pending
    /\ request = NoRequest

NextHandler ==
    \/ \E error_message \in Messages : IntegrityError(error_message)
    \/ HandleIntegrityError

SpecHandler == InitHandler /\ [][NextHandler]_vars

\* ---- create_mapping requests in progress side by side ---------------------
\* one library and two books are stored (three POSTs after startup)
InitSteps ==
    /\ libraries = Insert(EmptyTable, 1,
                          [name |-> "Test Library", dept |-> "CSE",
                           count |-> 0, status |-> Active])
    /\ books = [b \in {1, 2} |->
                  [title |-> "Test Book", author |-> "Test Author",
                   category |-> "Test Category", price |-> 100000,
                   isbn |-> IF b = 1 THEN ISBN13 ELSE ISBN10]]
    /\ library_books = EmptyTable
    /\ next_library_id = 2
    /\ next_book_id = 3
    /\ next_mapping_id = 1
    /\ response = Resp("create_book", 201, "Book created successfully")
    /\ sessions = [w \in Workers |-> Idle]
    /\ exc = <<>>
    /\ request = NoRequest

\* the steps of create_mapping when no database call fails
NextStepsNoFailure ==
    \/ \E w \in Workers, l \in LibIdInputs, b \in BookIdInputs, s \in StatusValues :
          create_mapping_check(w, l, b, s)
    \/ \E w \in Workers : LibraryBookCRUD_create(w)
    \/ \E w \in Workers : increment_count_query(w)
    \/ \E w \in Workers : increment_count_commit(w)

NextSteps ==
    \/ NextStepsNoFailure
    \/ \E w \in Workers : create_mapping_fails(w)

SpecSteps == InitSteps /\ [][NextSteps]_vars

\* a run without failures: a handler that has started keeps running, so each
\* of its database calls is eventually made
SpecStepsNoFailure ==
    /\ InitSteps
    /\ [][NextStepsNoFailure]_vars
    /\ \A w \in Workers :
          /\ WF_vars(LibraryBookCRUD_create(w))
          /\ WF_vars(increment_count_query(w))
          /\ WF_vars(increment_count_commit(w))

\* the status filters a get_library_books request supplies
StatusFilters == {NoneStr, "", Active, Inactive, "InvalidStatus"}

\* the writing endpoints together with the reading ones
NextRead ==
    \/ Next
    \/ \E id \in LibIdInputs : get_library_by_id(id)
    \/ \E id \in BookIdInputs : get_book_by_id(id)
    \/ \E id \in MapIdInputs : get_mapping_by_id(id)
    \/ \E id \in LibIdInputs, status \in StatusFilters : get_library_books(id, status)

SpecRead == Init /\ [][NextRead]_vars

\* ==== properties ==========================================================
\* the number of Active mappings of library l in the table ms
ActiveMappings(ms, l) ==
    Cardinality({m \in DOMAIN ms : ms[m].lib_id = l /\ ms[m].status = Active})

\* (lib_id, book_id) has a row in the table ms
PairStored(ms, l, b) == \E m \in DOMAIN ms : ms[m].lib_id = l /\ ms[m].book_id = b

\* C1: in every reachable state each stored library's count equals the number
\* of stored mappings with that lib_id and status Active.
C1_CountEqualsActiveMappings ==
    \A l \in DOMAIN libraries : libraries[l].count = ActiveMappings(library_books, l)

\* C2: in every reachable state there is at most one stored mapping for any
\* (lib_id, book_id) pair.
C2_OneMappingPerPair ==
    \A a, b \in DOMAIN library_books :
        (/\ library_books[a].lib_id = library_books[b].lib_id
         /\ library_books[a].book_id = library_books[b].book_id) => a = b

\* C2 witness: two mappings are stored and an update_mapping that would have
\* made their pairs equal has just been refused by the unique constraint.
C2_Witness ==
    /\ Cardinality(DOMAIN library_books) = 2
    /\ response.op = "update_mapping"
    /\ response.detail = DuplicateEntry

\* C3: create_mapping stores a mapping only if its library and its book are
\* both stored at the time of the call; when either is missing the answer is
\* HTTP 400, no mapping is stored and every library's count is unchanged.
C3_CreateMappingNeedsParents ==
    [][\A l \in LibIdInputs, b \in BookIdInputs, s \in StatusValues :
          create_mapping(l, b, s) =>
            /\ (library_books' # library_books) => (l \in DOMAIN libraries /\ b \in DOMAIN books)
            /\ (l \notin DOMAIN libraries \/ b \notin DOMAIN books) =>
                  /\ response'.status = 400
                  /\ library_books' = library_books
                  /\ libraries' = libraries]_vars

\* C3 witness: a create_mapping naming a stored library and a missing book
\* has just been refused.
C3_Witness ==
    /\ response.op = "create_mapping"
    /\ response.status = 400
    /\ response.detail = "Book not found"
    /\ DOMAIN libraries # {}

\* C4: create_mapping for a pair that already has a stored mapping (of either
\* status) answers HTTP 409 and changes neither the mappings nor any count.
C4_DuplicateMappingRefused ==
    [][\A l \in LibIdInputs, b \in BookIdInputs, s \in StatusValues :
          (create_mapping(l, b, s) /\ PairStored(library_books, l, b)) =>
            /\ response'.status = 409
            /\ library_books' = library_books
            /\ libraries' = libraries]_vars

\* C4 witness: a create_mapping has just been answered 409 while the only
\* stored mapping is Inactive.
C4_Witness ==
    /\ response.op = "create_mapping"
    /\ response.status = 409
    /\ DOMAIN library_books = {1}
    /\ library_books[1].status = Inactive

\* C5: a successful create_mapping with status Active increases the count of
\* the library named by lib_id by exactly 1 and leaves every other library,
\* and every book, unchanged.
C5_ActiveCreateIncrementsCount ==
    [][\A l \in LibIdInputs, b \in BookIdInputs :
          (create_mapping(l, b, Active) /\ response'.status = 201) =>
            /\ DOMAIN libraries' = DOMAIN libraries
            /\ libraries'[l] = [libraries[l] EXCEPT !.count = @ + 1]
            /\ \A o \in DOMAIN libraries \ {l} : libraries'[o] = libraries[o]
            /\ books' = books]_vars

\* C5 witness: an Active mapping has just been created while two libraries
\* are stored.
C5_Witness ==
    /\ response.op = "create_mapping"
    /\ response.status = 201
    /\ (next_mapping_id - 1) \in DOMAIN library_books
    /\ library_books[next_mapping_id - 1].status = Active
    /\ Cardinality(DOMAIN libraries) = 2

\* C6: a successful delete_mapping of an Active mapping removes the mapping
\* and decreases the count of the mapping's library by exactly 1.
C6_DeleteMappingDecrementsCount ==
    [][\A m \in DOMAIN library_books :
          (delete_mapping(m) /\ library_books[m].status = Active) =>
            /\ m \notin DOMAIN library_books'
            /\ libraries'[library_books[m].lib_id].count
                 = libraries[library_books[m].lib_id].count - 1]_vars

\* C7: update_mapping that changes a mapping's status adjusts the count of the
\* mapping's library: Active to Inactive decreases it by 1, Inactive to Active
\* increases it by 1, an unchanged status leaves it unchanged.
C7_UpdateMappingAdjustsCount ==
    [][\A m \in DOMAIN library_books, u \in LibraryBookUpdateBodies :
          (/\ update_mapping(m, u)
           /\ response'.status = 200
           /\ library_books'[m].lib_id = library_books[m].lib_id) =>
            LET l == library_books[m].lib_id
                old == library_books[m].status
                new == library_books'[m].status
            IN libraries'[l].count =
                 IF old = Active /\ new = Inactive THEN libraries[l].count - 1
                 ELSE IF old = Inactive /\ new = Active THEN libraries[l].count + 1
                 ELSE libraries[l].count]_vars

\* C8: after a successful delete_library(L) no stored mapping has lib_id = L,
\* after a successful delete_book(B) no stored mapping has book_id = B, and
\* the mappings of other libraries and books are left unchanged.
C8_ParentDeleteCascades ==
    [][/\ \A l \in DOMAIN libraries :
            delete_library(l) =>
              /\ \A m \in DOMAIN library_books' : library_books'[m].lib_id # l
              /\ \A m \in DOMAIN library_books :
                    library_books[m].lib_id # l =>
                      (m \in DOMAIN library_books' /\ library_books'[m] = library_books[m])
       /\ \A b \in DOMAIN books :
            delete_book(b) =>
              /\ \A m \in DOMAIN library_books' : library_books'[m].book_id # b
              /\ \A m \in DOMAIN library_books :
                    library_books[m].book_id # b =>
                      (m \in DOMAIN library_books' /\ library_books'[m] = library_books[m])]_vars

\* C8 witness: a library has just been deleted; two mappings were created,
\* none was deleted on its own, and exactly one (of another library) is left.
C8_Witness ==
    /\ response.op = "delete_library"
    /\ response.status = 200
    /\ next_mapping_id = 3
    /\ DOMAIN library_books = {1}
    /\ Cardinality(DOMAIN libraries) = 1
    /\ next_library_id = 3

\* C9: in every reachable state every stored mapping's lib_id is the id of a
\* stored library and its book_id is the id of a stored book.
C9_MappingsReferToStoredParents ==
    \A m \in DOMAIN library_books :
        /\ library_books[m].lib_id \in DOMAIN libraries
        /\ library_books[m].book_id \in DOMAIN books

\* C9 witness: an update_mapping naming a library or book that is not stored
\* has just been refused by the foreign key, the mapping still being stored.
C9_Witness ==
    /\ response.op = "update_mapping"
    /\ response.detail = ForeignKeyFails
    /\ DOMAIN library_books # {}

\* C10: in every reachable state no two stored books have the same isbn, and
\* a duplicate is refused by an application-level pre-check as well as by the
\* database constraint: a create_book or update_book with a duplicate isbn
\* never gets as far as the database's unique index.
C10_IsbnUniqueWithPreCheck ==
    /\ \A a, b \in DOMAIN books : books[a].isbn = books[b].isbn => a = b
    /\ response.op \in {"create_book", "update_book"} => response.detail # DuplicateEntry

\* (isbn i is the isbn of a stored book other than book `except`)
IsbnStored(bs, i, except) == \E b \in DOMAIN bs \ {except} : bs[b].isbn = i

\* C11: create_book (POST /books) with an isbn equal to that of a stored book
\* answers HTTP 409 and leaves the stored books unchanged.
C11_DuplicateIsbnCreate409 ==
    [][\A book \in BookCreateBodies :
          (create_book(book) /\ IsbnStored(books, book.isbn, 0)) =>
            /\ response'.status = 409
            /\ books' = books]_vars

\* C12: update_book (PUT /books/{id}) that sets isbn to the isbn of a
\* different stored book answers HTTP 409 and leaves both books unchanged.
C12_DuplicateIsbnUpdate409 ==
    [][\A id \in DOMAIN books, u \in BookUpdateBodies :
          (/\ update_book(id, u)
           /\ "isbn" \in DOMAIN u
           /\ IsbnStored(books, u.isbn, id)) =>
            /\ response'.status = 409
            /\ books' = books]_vars

\* a get, update or delete of the three kinds, by the id it names
LibraryRequest(id) ==
    \/ get_library_by_id(id)
    \/ \E u \in LibraryUpdateBodies : update_library(id, u)
    \/ delete_library(id)

BookRequest(id) ==
    \/ get_book_by_id(id)
    \/ \E u \in BookUpdateBodies : update_book(id, u)
    \/ delete_book(id)

MappingRequest(id) ==
    \/ get_mapping_by_id(id)
    \/ \E u \in LibraryBookUpdateBodies : update_mapping(id, u)
    \/ delete_mapping(id)

\* the answer is not a 404, or a table has changed
NotA404 == ~(response'.status = 404 /\ UNCHANGED <<libraries, books, library_books>>)

\* C13: for each of the three kinds, a get, update or delete naming an id that
\* is not stored answers HTTP 404 and leaves all libraries, books and mappings
\* unchanged: in no reachable state can such a request end any other way.
C13_MissingIdAnswers404 ==
    /\ \A id \in LibIdInputs \ DOMAIN libraries : ~ENABLED (LibraryRequest(id) /\ NotA404)
    /\ \A id \in BookIdInputs \ DOMAIN books : ~ENABLED (BookRequest(id) /\ NotA404)
    /\ \A id \in MapIdInputs \ DOMAIN library_books : ~ENABLED (MappingRequest(id) /\ NotA404)

\* C13 witness: a delete_mapping naming an id that is not stored has just been
\* answered 404 while other mappings are stored.
C13_Witness ==
    /\ response.op = "delete_mapping"
    /\ response.status = 404
    /\ DOMAIN library_books # {}

\* ids handed out so far that are no longer stored: the deleted ones
DeletedIds(table, next_id) == (1..(next_id - 1)) \ DOMAIN table

\* C14: once a delete of a library, book or mapping with id X has succeeded,
\* X is never stored again: it is not stored right after the delete, no later
\* step brings it back, and every get, update or delete naming it answers 404.
C14_DeletedIdsStayGone ==
    /\ [][/\ \A id \in DOMAIN libraries :
               (delete_library(id) /\ response'.status = 200) =>
                 id \in DeletedIds(libraries', next_library_id')
          /\ \A id \in DOMAIN books :
               (delete_book(id) /\ response'.status = 200) =>
                 id \in DeletedIds(books', next_book_id')
          /\ \A id \in DOMAIN library_books :
               (delete_mapping(id) /\ response'.status = 200) =>
                 id \in DeletedIds(library_books', next_mapping_id')
          /\ DeletedIds(libraries, next_library_id) \subseteq DeletedIds(libraries', next_library_id')
          /\ DeletedIds(books, next_book_id) \subseteq DeletedIds(books', next_book_id')
          /\ DeletedIds(library_books, next_mapping_id)
                \subseteq DeletedIds(library_books', next_mapping_id')]_vars
    /\ [](/\ \A id \in DeletedIds(libraries, next_library_id) :
              ~ENABLED (LibraryRequest(id) /\ response'.status # 404)
          /\ \A id \in DeletedIds(books, next_book_id) :
              ~ENABLED (BookRequest(id) /\ response'.status # 404)
          /\ \A id \in DeletedIds(library_books, next_mapping_id) :
              ~ENABLED (MappingRequest(id) /\ response'.status # 404))

\* C14 witness: library 1 was deleted, a library was created after that, and
\* a get of library 1 has just been answered 404.
C14_Witness ==
    /\ DOMAIN libraries = {2}
    /\ response.op = "get_library_by_id"
    /\ response.status = 404

\* the list has exactly one entry for each of the mappings `selected`, and
\* that entry carries the mapping's status and the id of its book
OneEntryPerMapping(list, selected) ==
    /\ Len(list) = Cardinality(selected)
    /\ \A m \in selected :
          Cardinality({i \in 1..Len(list) :
                         /\ list[i].book_id = library_books[m].book_id
                         /\ list[i].status = library_books[m].status}) = 1

\* what get_library_books(L, status) is to return when `nofilter` are the
\* status values that stand for "no status given"
LibraryBooksAnswer(nofilter) ==
    \A L \in LibIdInputs, status \in StatusFilters :
        IF L \notin DOMAIN libraries
        THEN ~ENABLED (get_library_books(L, status) /\ response'.status # 404)
        ELSE /\ ~ENABLED (get_library_books(L, status) /\ response'.status # 200)
             /\ OneEntryPerMapping(
                    get_library_books_list(books, library_books, L, status),
                    {m \in DOMAIN library_books :
                        /\ library_books[m].lib_id = L
                        /\ status \notin nofilter => library_books[m].status = status})

\* C16 as stated: get_library_books(L, status) answers 404 when library L is
\* not stored; otherwise it returns exactly one entry per stored mapping with
\* lib_id = L, restricted to the mappings whose status equals the filter
\* whenever a status is given (anything but None), each entry carrying the
\* mapping's status and the mapped book's id.
C16_FilterWheneverGiven == LibraryBooksAnswer({NoneStr})

\* C16 (amended): as above, but the restriction applies only when a non-empty
\* status is given: an empty status string (?status=) is treated like no
\* status and every mapping of L is returned.
C16_FilterWhenNonEmpty == LibraryBooksAnswer({NoneStr, ""})

\* C16 witness: get_library_books has just answered 200 for a library that
\* has an Active and an Inactive mapping.
C16_Witness ==
    /\ response.op = "get_library_books"
    /\ response.status = 200
    /\ \E a, b \in DOMAIN library_books :
          /\ library_books[a].lib_id = library_books[b].lib_id
          /\ library_books[a].status = Active
          /\ library_books[b].status = Inactive

\* the dict a get returns after the update (new) against the one before it
\* (old): a supplied field has the supplied value -- a price as it is, or as
\* the two-decimal column stores it -- and any other field its previous value
FieldsAsSupplied(old, new, update_data, exact) ==
    \A f \in DOMAIN new :
        new[f] = IF f \notin DOMAIN update_data THEN old[f]
                 ELSE IF f = "price" /\ ~exact THEN Numeric_10_2(update_data[f])
                 ELSE update_data[f]

\* the records of the table other than id are the same before and after
OthersUnchanged(before, after, id) ==
    /\ DOMAIN after = DOMAIN before
    /\ \A o \in DOMAIN before \ {id} : after[o] = before[o]

\* no successful update of a stored record can end otherwise than with the
\* supplied fields changed as FieldsAsSupplied says and nothing else changed
PartialUpdate(exact) ==
    /\ \A id \in DOMAIN libraries, u \in LibraryFieldUpdates :
          ~ENABLED (/\ update_library(id, u)
                    /\ response'.status = 200
                    /\ ~(/\ OthersUnchanged(libraries, libraries', id)
                         /\ FieldsAsSupplied(LibraryDict(libraries, id),
                                             LibraryDict(libraries', id), u, exact)
                         /\ UNCHANGED <<books, library_books>>))
    /\ \A id \in DOMAIN books, u \in BookFieldUpdates :
          ~ENABLED (/\ update_book(id, u)
                    /\ response'.status = 200
                    /\ ~(/\ OthersUnchanged(books, books', id)
                         /\ FieldsAsSupplied(BookDict(books, id),
                                             BookDict(books', id), u, exact)
                         /\ UNCHANGED <<libraries, library_books>>))
    /\ \A id \in DOMAIN library_books, u \in LibraryBookUpdateBodies :
          ~ENABLED (/\ update_mapping(id, u)
                    /\ response'.status = 200
                    /\ ~(/\ OthersUnchanged(library_books, library_books', id)
                         /\ FieldsAsSupplied(MappingDict(library_books, id),
                                             MappingDict(library_books', id), u, exact)
                         /\ UNCHANGED <<libraries, books>>))

\* C15 as stated: a successful update of a library, book or mapping with a
\* subset of fields changes exactly the supplied fields of that one record: a
\* following get returns the supplied values for those fields and the previous
\* values for every field not supplied, and every other record is unchanged.
C15_GetReturnsSuppliedValues == PartialUpdate(TRUE)

\* C15 (amended): as above, except that a supplied book price is returned
\* rounded to two decimal places, as the price column stores it.
C15_GetReturnsStoredValues == PartialUpdate(FALSE)

\* C15 witness: an update_book has just succeeded, two books are stored and
\* one of them has the price 30.00 that a supplied 29.999 is stored as.
C15_Witness ==
    /\ response.op = "update_book"
    /\ response.status = 200
    /\ Cardinality(DOMAIN books) = 2
    /\ \E b \in DOMAIN books : books[b].price = 30000

\* the request can only be answered 422, with the three tables left as they are
Only422(handler) ==
    ~ENABLED (handler /\ ~(response'.status = 422
                           /\ UNCHANGED <<libraries, books, library_books>>))

\* C20: a create request whose body violates the schema -- a library with an
\* empty name, a negative count or a status outside {Active, Inactive}; a
\* mapping with a lib_id or book_id not greater than 0; a book with a required
\* field missing or a price not greater than 0 -- is answered HTTP 422 and no
\* library, book or mapping is stored or changed.
C20_InvalidCreateAnswers422 ==
    /\ \A body \in LibraryRawBodies :
          (\/ "name" \in DOMAIN body /\ body.name = ""
           \/ "count" \in DOMAIN body /\ body.count < 0
           \/ "status" \in DOMAIN body /\ body.status \notin {Active, Inactive})
            => Only422(POST_libraries(body))
    /\ \A body \in LibraryBookRawBodies :
          (\/ "lib_id" \in DOMAIN body /\ ~(body.lib_id > 0)
           \/ "book_id" \in DOMAIN body /\ ~(body.book_id > 0))
            => Only422(POST_library_books(body))
    /\ \A body \in BookRawBodies :
          (\/ \E f \in {"title", "author", "price", "isbn"} : f \notin DOMAIN body
           \/ "price" \in DOMAIN body /\ ~(body.price > 0))
            => Only422(POST_books(body))

\* C20 witness: a POST /library-books has just been answered 422 while a
\* library and a book are stored and no mapping is.
C20_Witness ==
    /\ response.op = "create_mapping"
    /\ response.status = 422
    /\ DOMAIN libraries # {} /\ DOMAIN books # {}
    /\ DOMAIN library_books = {}

\* C17: create_mapping writes the mapping row and the count increment as two
\* separately committed steps: the insert commits without touching any count
\* and the increment commits without touching any mapping; a failure after
\* the insert has committed and before the increment commits leaves the
\* mapping stored and the count not incremented; and no step of any request
\* takes a stored mapping back.
C17_InsertAndIncrementCommitSeparately ==
    [][/\ \A w \in Workers :
            /\ LibraryBookCRUD_create(w) => libraries' = libraries
            /\ increment_count_commit(w) => library_books' = library_books
            /\ (/\ create_mapping_fails(w)
                /\ sessions[w].pc \in {"increment_count", "commit"}) =>
                  /\ sessions[w].mapping_id \in DOMAIN library_books'
                  /\ library_books' = library_books
                  /\ libraries' = libraries
       /\ \A m \in DOMAIN library_books :
            m \in DOMAIN library_books' /\ library_books'[m] = library_books[m]]_vars

\* C17 witness: a create_mapping has just failed after its insert; no request
\* is in progress, an Active mapping of library 1 is stored and the count of
\* library 1 is still 0.
C17_Witness ==
    /\ response.detail = OperationalError
    /\ \A w \in Workers : sessions[w].pc = "idle"
    /\ \E m \in DOMAIN library_books :
          library_books[m].lib_id = 1 /\ library_books[m].status = Active
    /\ libraries[1].count = 0

\* C18: the count is eventually maintained: in a run without failures in
\* which create_mapping commits Active mappings, the count is increased for
\* each of them, so that once no operation is in progress the count of
\* every library again equals the number of its Active mappings.
C18_CountMaintainedOnceIdle ==
    (/\ \A w \in Workers : sessions[w].pc = "idle"
     /\ \A m \in DOMAIN library_books : library_books[m].status = Active) =>
        \A l \in DOMAIN libraries : libraries[l].count = ActiveMappings(library_books, l)

\* the message is that of a duplicate-key or unique-constraint violation
\* (MySQL's "Duplicate entry", "unique constraint" in any case)
DuplicateKeyViolation(error_message) ==
    \E i \in DOMAIN error_message :
        error_message[i] \in {"Duplicate entry", "UNIQUE constraint", "unique constraint"}

\* the message is that of a foreign-key violation
ForeignKeyViolation(error_message) ==
    \E i \in DOMAIN error_message :
        error_message[i] \in {"FOREIGN KEY constraint", "foreign key constraint",
                              "Cannot add or update a child row"}

\* C19: integrity_error_handler classifies an integrity error by its message:
\* a duplicate-key / unique-constraint violation is answered 409, a
\* foreign-key violation 400 and any other integrity error 400; the body of
\* every answer has a 'detail' field; and a message that matches both
\* patterns is answered as a duplicate (409).
C19_IntegrityErrorClassified ==
    response # Pending =>
        /\ "detail" \in DOMAIN response.content
        /\ response.status_code =
              IF DuplicateKeyViolation(exc) THEN 409
              ELSE IF ForeignKeyViolation(exc) THEN 400
              ELSE 400

\* C19 witness: a message that matches both patterns has been answered 409.
C19_Witness ==
    /\ response # Pending
    /\ response.status_code = 409
    /\ DuplicateKeyViolation(exc) /\ ForeignKeyViolation(exc)

\* the text is from 10 to 20 characters long, each of them a digit, a hyphen
\* or a whitespace character, and 10 or 13 of them are digits
IsbnWellFormed(v) ==
    /\ Len(v) \in 10..20
    /\ \A i \in 1..Len(v) : v[i] \in DigitChars \cup {"-"} \cup Whitespace
    /\ Cardinality({i \in 1..Len(v) : v[i] \in DigitChars}) \in {10, 13}

\* C21: BookCreate accepts an isbn string if and only if its raw length is
\* between 10 and 20 characters and, after removing every hyphen and
\* whitespace character, the remainder consists only of digits and has length
\* exactly 10 or 13; an accepted isbn is stored unmodified (hyphens kept).
C21_IsbnAcceptedIffWellFormed ==
    (request # NoRequest /\ response.op = "create_book") =>
        /\ response.status # 422 <=> IsbnWellFormed(request.isbn)
        /\ response.status = 201 =>
              /\ (next_book_id - 1) \in DOMAIN books
              /\ books[next_book_id - 1].isbn = request.isbn

\* C21 witness: the hyphenated isbn of the test, 17 characters of which 13
\* are digits, has been accepted and is stored with its hyphens.
C21_Witness ==
    /\ request # NoRequest
    /\ response.op = "create_book"
    /\ response.status = 201
    /\ Len(request.isbn) = 17
    /\ 1 \in DOMAIN books
    /\ books[1].isbn = request.isbn
    /\ books[1].isbn[4] = "-"

\* the books at offsets (page-1)*size up to page*size-1 of the stored books
\* that `matching` selects, in store order (none beyond the last one)
PageOf(matching, page, size) ==
    LET rows == Rows(matching)
        first == (page - 1) * size + 1
        last == IF page * size < Len(rows) THEN page * size ELSE Len(rows)
    IN [i \in 1..(IF last >= first THEN last - first + 1 ELSE 0) |->
          BookDict(books, rows[first + i - 1])]

\* C22: GET /books with page p >= 1 and limit n in 1..100 returns a list of at
\* most n books, namely the stored books at offsets (p-1)*n up to p*n-1 in
\* store order; a page beyond the last stored book returns an empty list.
C22_BooksPageReturned ==
    \A p \in 1..MaxPage, n \in 1..MaxPageSize :
        ~ENABLED (/\ get_books(p, n)
                  /\ ~(/\ response'.status = 200
                       /\ "body" \in DOMAIN response'
                       /\ response'.body = PageOf(DOMAIN books, p, n)))

\* ceil(total / size)
Ceil(total, size) == CHOOSE k \in 0..total : k * size >= total /\ (k - 1) * size < total

\* C26: for every number of matching books total >= 0 and every page size in
\* 1..100, the legacy GET /api/v1/books builds a valid BookListResponse whose
\* pages field equals ceil(total / size) and whose books list holds the
\* records at offsets (page-1)*size up to page*size-1; in particular the
\* response is valid (pages >= 1 as the schema requires) when total is 0.
C26_BookListResponseValid ==
    \A page \in 1..MaxPage, size \in 1..MaxPageSize, category \in CategoryFilters :
        LET matching == {b \in DOMAIN books :
                            category \in {"Test Category", "Fiction"}
                                => books[b].category = category}
        IN ~ENABLED (/\ api_v1_get_books(page, size, category)
                     /\ ~(/\ response'.status = 200
                          /\ response'.body.pages >= 1
                          /\ response'.body.total = Cardinality(matching)
                          /\ response'.body.pages = Ceil(Cardinality(matching), size)
                          /\ response'.body.books = PageOf(matching, page, size)))

\* C23: the library count tracks Active mappings only: a successful
\* create_mapping with status Inactive stores the mapping and leaves the count
\* of its library unchanged.
C23_InactiveCreateLeavesCount ==
    [][\A l \in LibIdInputs, b \in BookIdInputs :
          (create_mapping(l, b, Inactive) /\ response'.status = 201) =>
            /\ PairStored(library_books', l, b)
            /\ libraries'[l].count = libraries[l].count]_vars

\* C29: deleting a book that has Active mappings keeps the library counts
\* consistent: after a successful delete_book(B), for every library L that had
\* an Active mapping to B, count(L) equals the number of Active mappings of L
\* that remain stored.
C29_BookDeleteKeepsCounts ==
    [][\A B \in DOMAIN books :
          (delete_book(B) /\ response'.status = 200) =>
            \A L \in DOMAIN libraries :
                (\E m \in DOMAIN library_books :
                    /\ library_books[m].lib_id = L
                    /\ library_books[m].book_id = B
                    /\ library_books[m].status = Active)
                  => libraries'[L].count = ActiveMappings(library_books', L)]_vars

\* C24: in every reachable state every stored library has count >= 0:
\* creation and update only accept a count >= 0, and decrement_count applied
\* to a library whose count is 0 leaves the count at 0.
C24_CountNeverNegative ==
    /\ \A l \in DOMAIN libraries : libraries[l].count >= 0
    /\ \A body \in LibraryCountBodies :
          ("count" \in DOMAIN body /\ body.count < 0) =>
            /\ Only422(POST_libraries(body))
            /\ \A id \in LibIdInputs : Only422(PUT_libraries(id, body))
    /\ \A l \in DOMAIN libraries :
          libraries[l].count = 0 =>
            ~ENABLED (decrement_count(l) /\ ~(l \in DOMAIN libraries' /\ libraries'[l].count = 0))

\* C24 witness: decrement_count has just returned a library; no mapping was
\* ever created, so the count it found was 0, and it is 0.
C24_Witness ==
    /\ response.op = "decrement_count"
    /\ response.detail = "Library"
    /\ next_mapping_id = 1
    /\ \A l \in DOMAIN libraries : libraries[l].count = 0

\* C25: update_book_count(L) on a stored library sets count(L) to exactly the
\* number of stored mappings with lib_id = L and status Active, changes
\* nothing else, and is idempotent: applying it twice in a row gives the same
\* state as applying it once; on a library id that is not stored it returns
\* nothing and changes no state.
C25_UpdateBookCountRecomputes ==
    \A L \in LibIdInputs :
        /\ ~ENABLED (/\ update_book_count(L)
                     /\ ~(/\ UNCHANGED <<books, library_books,
                                          next_library_id, next_book_id, next_mapping_id>>
                          /\ IF L \in DOMAIN libraries
                             THEN /\ response'.detail # "None"
                                  /\ libraries' = [libraries EXCEPT ![L].count =
                                                       ActiveMappings(library_books, L)]
                             ELSE /\ response'.detail = "None"
                                  /\ libraries' = libraries))
        /\ LET once == LibraryCRUD_update_book_count(libraries, library_books, L)
           IN LibraryCRUD_update_book_count(once, library_books, L) = once

\* C25 witness: update_book_count has just returned a library whose only
\* mapping is Inactive, and its count -- 1 since the mapping was created -- is 0.
C25_Witness ==
    /\ response.op = "update_book_count"
    /\ response.detail = "Library"
    /\ DOMAIN libraries = {1}
    /\ libraries[1].count = 0
    /\ DOMAIN library_books = {1}
    /\ library_books[1].status = Inactive

\* C27: when two create_mapping requests for the same (lib_id, book_id) pair
\* run concurrently in any interleaving of their check, insert and increment
\* steps, exactly one mapping for the pair is stored, the library's count is
\* increased exactly once, and the request that does not store a mapping is
\* answered with HTTP 409.
C27_ConcurrentDuplicateAnswered409 ==
    /\ [][\A w \in Workers :
            /\ \A l \in LibIdInputs, b \in BookIdInputs, s \in StatusValues :
                  (create_mapping_check(w, l, b, s) /\ PairStored(library_books, l, b)) =>
                    /\ response'.status = 409
                    /\ library_books' = library_books
            /\ (/\ LibraryBookCRUD_create(w)
                /\ PairStored(library_books, sessions[w].lib_id, sessions[w].book_id)) =>
                    /\ response'.status = 409
                    /\ library_books' = library_books]_vars
    /\ [](\A a, b \in DOMAIN library_books :
             (/\ library_books[a].lib_id = library_books[b].lib_id
              /\ library_books[a].book_id = library_books[b].book_id) => a = b)
    /\ []((/\ \A w \in Workers : sessions[w].pc = "idle"
           /\ Cardinality(DOMAIN library_books) = 1) => libraries[1].count = 1)

\* C28: when two create_mapping requests for the same library and two
\* different books run concurrently, each in its own database session, then
\* after both have succeeded the library's count has increased by exactly 2:
\* no interleaving of the read-then-write in increment_count loses an
\* increment.
C28_NoIncrementLost ==
    (/\ \A w \in Workers : sessions[w].pc = "idle"
     /\ PairStored(library_books, 1, 1)
     /\ PairStored(library_books, 1, 2)) => libraries[1].count = 2

\* the mappings and the library counts of a state
StoredEffect(ls, ms) == [library_books |-> ms, count |-> [l \in DOMAIN ls |-> ls[l].count]]

\* C30: the legacy mapping endpoints under /api/v1/library-books are
\* equivalent in stored effect to the service endpoints under /library-books:
\* for the same starting state and the same request, the legacy create, update
\* and delete leave the same mappings and the same library counts as
\* create_mapping, update_mapping and delete_mapping, and the legacy create
\* likewise refuses a mapping whose library or book is not stored.
C30_LegacyEquivalentInStoredEffect ==
    /\ \A l \in LibIdInputs, b \in BookIdInputs, s \in StatusValues :
          /\ \A ls \in {libraries, LibraryCRUD_increment_count(libraries, l)},
                ms \in {library_books,
                        Insert(library_books, next_mapping_id,
                               [lib_id |-> l, book_id |-> b, status |-> s])} :
                ENABLED (/\ create_mapping(l, b, s)
                         /\ StoredEffect(libraries', library_books') = StoredEffect(ls, ms))
                  => ~ENABLED (/\ create_library_book(l, b, s)
                               /\ StoredEffect(libraries', library_books')
                                    # StoredEffect(ls, ms))
          /\ (l \notin DOMAIN libraries \/ b \notin DOMAIN books) =>
                ~ENABLED (create_library_book(l, b, s) /\ library_books' # library_books)
    /\ \A id \in MapIdInputs, u \in LibraryBookUpdateBodies :
          \A ms \in {library_books} \cup
                     (IF id \in DOMAIN library_books
                      THEN {LibraryBookCRUD_update(library_books, id, u)} ELSE {}) :
             ENABLED (/\ update_mapping(id, u)
                      /\ StoredEffect(libraries', library_books') = StoredEffect(libraries, ms))
               => ~ENABLED (/\ update_library_book(id, u)
                            /\ StoredEffect(libraries', library_books')
                                 # StoredEffect(libraries, ms))
    /\ \A id \in MapIdInputs :
          \A ms \in {library_books, Remove(library_books, {id})} :
             ENABLED (/\ delete_mapping(id)
                      /\ StoredEffect(libraries', library_books') = StoredEffect(libraries, ms))
               => ~ENABLED (/\ delete_library_book(id)
                            /\ StoredEffect(libraries', library_books')
                                 # StoredEffect(libraries, ms))
====
